---------------------------- MODULE Spec2Model ----------------------------
(***************************************************************************)
(* A model of the library-search client: the CSV parser, the row           *)
(* objectifier and the text normalizers of src/src/lib/csv.js, and the     *)
(* search filters of src/src/App.jsx (strict variant) and of               *)
(* src/unnamed/part_000 (multi-dataset, lenient variant).                  *)
(*                                                                         *)
(* A JavaScript string is a sequence of characters; a character is a       *)
(* one-element TLA+ string, except BOM, which stands for the code unit     *)
(* U+FEFF.                                                                 *)
(***************************************************************************)
EXTENDS Integers, Sequences, FiniteSets, TLC

VARIABLES csv, hdr, obj, app, multi

vars == <<csv, hdr, obj, app, multi>>

(***************************************************************************)
(* Bounds of the model.                                                    *)
(***************************************************************************)
MaxTextLen == 5

MaxCellLen == 4

MaxCols == 2

MaxRows == 2

MaxStrLen == 3

MaxBooks == 3

MaxResults == 23

MaxRequestedPage == 4

MaxDataRows == 11

(***************************************************************************)
(* Characters.                                                             *)
(***************************************************************************)
DQ == "\""

COMMA == ","

LF == "\n"

CR == "\r"

SP == " "

TAB == "\t"

BOM == "<U+FEFF>"

\* What text[i] yields past the end of the string.
UNDEFINED == "<undefined>"

\* The characters of the model that String.prototype.trim strips and the
\* regular expression class \s matches (WhiteSpace and LineTerminator of
\* ECMAScript, which hold U+FEFF).
WhiteSpace == {SP, TAB, LF, CR, BOM}

IsSpace(c) == c \in WhiteSpace

UpperLetters ==
  << "A", "B", "C", "D", "E", "F", "G", "H", "I", "J", "K", "L", "M",
     "N", "O", "P", "Q", "R", "S", "T", "U", "V", "W", "X", "Y", "Z" >>

LowerLetters ==
  << "a", "b", "c", "d", "e", "f", "g", "h", "i", "j", "k", "l", "m",
     "n", "o", "p", "q", "r", "s", "t", "u", "v", "w", "x", "y", "z" >>

\* All strings over alphabet A of length at most n.
StringsUpTo(A, n) == UNION { [1..k -> A] : k \in 0..n }

(***************************************************************************)
(* String primitives of JavaScript used by the code.                       *)
(***************************************************************************)
RECURSIVE TrimStart(_)
TrimStart(s) ==
  IF s = <<>> THEN s
  ELSE IF IsSpace(Head(s)) THEN TrimStart(Tail(s)) ELSE s

RECURSIVE TrimEnd(_)
TrimEnd(s) ==
  IF s = <<>> THEN s
  ELSE IF IsSpace(s[Len(s)]) THEN TrimEnd(SubSeq(s, 1, Len(s) - 1)) ELSE s

\* String.prototype.trim
Trim(s) == TrimEnd(TrimStart(s))

\* s.replace(/\s+/g, rep): every maximal run of whitespace becomes rep.
RECURSIVE ReplaceWsRuns(_, _)
ReplaceWsRuns(s, rep) ==
  IF s = <<>> THEN <<>>
  ELSE IF IsSpace(Head(s))
       THEN rep \o ReplaceWsRuns(TrimStart(s), rep)
       ELSE <<Head(s)>> \o ReplaceWsRuns(Tail(s), rep)

ToLowerChar(c) ==
  IF \E k \in 1..Len(UpperLetters) : UpperLetters[k] = c
  THEN LowerLetters[CHOOSE k \in 1..Len(UpperLetters) : UpperLetters[k] = c]
  ELSE c

\* String.prototype.toLowerCase
ToLowerCase(s) == [k \in 1..Len(s) |-> ToLowerChar(s[k])]

\* String.prototype.includes
Includes(t, q) ==
  \E k \in 0..(Len(t) - Len(q)) : SubSeq(t, k + 1, k + Len(q)) = q

(***************************************************************************)
(* parseCSV (src/src/lib/csv.js).  A parser state holds the locals of the  *)
(* function; i is the 1-based scan position.                               *)
(***************************************************************************)
ParserInit == [i |-> 1, rows |-> <<>>, row |-> <<>>, field |-> <<>>,
               inQuotes |-> FALSE]

CharAt(text, i) == IF i \in 1..Len(text) THEN text[i] ELSE UNDEFINED

\* row.some((v) => (v ?? "").toString().trim() !== "")
RowHasContent(row) == \E k \in 1..Len(row) : Trim(row[k]) # <<>>

\* Faulty variant: the row is pushed even when every field is blank.
PushRowAlways(rows, row) == Append(rows, row)

\* if (row.some(...)) rows.push(row)
PushRowUnlessBlank(rows, row) ==
  IF RowHasContent(row) THEN Append(rows, row) ELSE rows

\* Faulty variant: a doubled quote is an escape outside quotes too.
IsDoubledQuote(st, next) == next = DQ

\* inQuotes && next === '"'
IsEscapedQuote(st, next) == st.inQuotes /\ next = DQ

\* The branch ch === '"'.
QuoteStep(text, st) ==
  IF IsEscapedQuote(st, CharAt(text, st.i + 1))
  THEN [st EXCEPT !.field = Append(@, DQ), !.i = @ + 2]
  ELSE [st EXCEPT !.inQuotes = ~@, !.i = @ + 1]

\* Faulty variant: a comma splits inside quotes too.
IsComma(st, ch) == ch = COMMA

\* !inQuotes && ch === ","
IsFieldSeparator(st, ch) == ~st.inQuotes /\ ch = COMMA

CommaStep(text, st) ==
  [st EXCEPT !.row = Append(@, st.field), !.field = <<>>, !.i = @ + 1]

\* !inQuotes && (ch === "\n" || ch === "\r")
IsRowTerminator(st, ch) == ~st.inQuotes /\ (ch = LF \/ ch = CR)

\* Faulty variant: CR LF is scanned as two terminators.
TerminatorWidthOne(ch, next) == 1

\* The width of the terminator: if (ch === "\r" && next === "\n") i++
TerminatorWidth(ch, next) == IF ch = CR /\ next = LF THEN 2 ELSE 1

TerminatorStep(text, st) ==
  [st EXCEPT
     !.rows = PushRowUnlessBlank(@, Append(st.row, st.field)),
     !.row = <<>>,
     !.field = <<>>,
     !.i = @ + TerminatorWidth(CharAt(text, st.i), CharAt(text, st.i + 1))]

\* field += ch
AppendStep(text, st) ==
  [st EXCEPT !.field = Append(@, CharAt(text, st.i)), !.i = @ + 1]

\* One iteration of the for loop.
ParseStep(text, st) ==
  LET ch == CharAt(text, st.i) IN
  IF ch = DQ THEN QuoteStep(text, st)
  ELSE IF IsFieldSeparator(st, ch) THEN CommaStep(text, st)
  ELSE IF IsRowTerminator(st, ch) THEN TerminatorStep(text, st)
  ELSE AppendStep(text, st)

\* Faulty variant: a row that ends inside quotes is dropped.
FlushStepClosed(st) ==
  IF st.inQuotes THEN [st EXCEPT !.row = Append(@, st.field)]
  ELSE [st EXCEPT !.rows = PushRowUnlessBlank(@, Append(st.row, st.field)),
                  !.row = Append(@, st.field)]

\* After the loop: row.push(field); push the row unless blank.
FlushStep(st) ==
  [st EXCEPT !.rows = PushRowUnlessBlank(@, Append(st.row, st.field)),
             !.row = Append(@, st.field)]

RECURSIVE ParseFrom(_, _)
ParseFrom(text, st) ==
  IF st.i <= Len(text) THEN ParseFrom(text, ParseStep(text, st))
  ELSE FlushStep(st).rows

parseCSV(text) == ParseFrom(text, ParserInit)

(***************************************************************************)
(* stripBom, normalizeHeader, normalizeText (src/src/lib/csv.js).          *)
(***************************************************************************)
\* if (!s) return s; s.charCodeAt(0) === 0xfeff ? s.slice(1) : s
stripBom(s) ==
  IF s = <<>> THEN s ELSE IF Head(s) = BOM THEN Tail(s) ELSE s

\* Faulty variant: inner whitespace is collapsed to one space, as in
\* normalizeText.
normalizeHeaderCollapsing(h) == ReplaceWsRuns(Trim(stripBom(h)), <<SP>>)

normalizeHeader(h) == ReplaceWsRuns(Trim(stripBom(h)), <<>>)

normalizeText(s) == ReplaceWsRuns(ToLowerCase(Trim(s)), <<SP>>)

(***************************************************************************)
(* rowsToObjects (src/src/lib/csv.js).  A JavaScript object is a function  *)
(* from its own keys to their values.                                      *)
(***************************************************************************)
Digits == <<"0", "1", "2", "3", "4", "5", "6", "7", "8", "9">>

\* `${n}` for a number n >= 0.
RECURSIVE DecimalString(_)
DecimalString(n) ==
  IF n < 10 THEN <<Digits[n + 1]>>
  ELSE DecimalString(n \div 10) \o <<Digits[(n % 10) + 1]>>

IdKey == <<"_", "_", "i", "d">>

ProtoKey == <<"_", "_", "p", "r", "o", "t", "o", "_", "_">>

\* `__col_${i}`, i the 0-based column index.
ColumnPlaceholder(i) == <<"_", "_", "c", "o", "l", "_">> \o DecimalString(i)

\* Faulty variant: an assignment adds the key only when it is absent.
ObjSetIfAbsent(o, key, v) ==
  IF key = ProtoKey \/ key \in DOMAIN o THEN o
  ELSE [x \in (DOMAIN o) \cup {key} |-> IF x = key THEN v ELSE o[x]]

\* obj[key] = v for a string v, on an object created by a literal: the key
\* __proto__ reaches the setter of Object.prototype, which ignores a string
\* and adds no own property; any other key is added or overwritten.
ObjSet(o, key, v) ==
  IF key = ProtoKey THEN o
  ELSE [x \in (DOMAIN o) \cup {key} |-> IF x = key THEN v ELSE o[x]]

\* headers[i] || `__col_${i}`, i the 0-based column index.
ColumnKey(headers, i) ==
  IF headers[i + 1] # <<>> THEN headers[i + 1] ELSE ColumnPlaceholder(i)

\* (r[i] ?? "").toString().trim(), i the 0-based column index.
CellValue(r, i) == IF i + 1 \in 1..Len(r) THEN Trim(r[i + 1]) ELSE <<>>

\* The for loop of the map callback, from column i on.
RECURSIVE FillColumns(_, _, _, _)
FillColumns(o, headers, r, i) ==
  IF i >= Len(headers) THEN o
  ELSE FillColumns(ObjSet(o, ColumnKey(headers, i), CellValue(r, i)),
                   headers, r, i + 1)

\* const headers = headersRaw.map((h) => normalizeHeader(h))
HeadersOf(rows) == [k \in 1..Len(rows[1]) |-> normalizeHeader(rows[1][k])]

\* `${idx}`
RowId(idx) == DecimalString(idx)

\* The map callback (r, idx) => {...}, idx the 0-based index of the data row.
RowToObject(headers, r, idx) ==
  FillColumns([x \in {IdKey} |-> RowId(idx)], headers, r, 0)

rowsToObjects(rows) ==
  IF rows = <<>> THEN <<>>
  ELSE [k \in 1..(Len(rows) - 1) |->
          RowToObject(HeadersOf(rows), rows[k + 1], k - 1)]

(***************************************************************************)
(* The books of the search page: objs.map(...) of the load effect          *)
(* (src/src/App.jsx) and of loadSiteBooksIfNeeded (src/unnamed/part_000).  *)
(***************************************************************************)
\* The field names, written with their code points.
FieldTitle == <<"<U+C11C>", "<U+BA85>">>

FieldAuthor == <<"<U+C800>", "<U+C790>">>

FieldPublisher == <<"<U+CD9C>", "<U+D310>", "<U+C0AC>">>

\* FIELD_OPTIONS, the values.
FieldOptions == {FieldTitle, FieldAuthor, FieldPublisher}

\* (o[key] ?? "").toString().trim() for a field name; pickField of App.jsx
\* looks up normalizeHeader(key), which is key for the three field names.
PickField(o, key) ==
  IF normalizeHeader(key) \in DOMAIN o THEN Trim(o[normalizeHeader(key)])
  ELSE <<>>

\* The value a book holds for a field; every book has the three fields.
BookField(b, f) ==
  CASE f = FieldTitle -> b.title
    [] f = FieldAuthor -> b.author
    [] f = FieldPublisher -> b.publisher
    [] OTHER -> <<>>

ToBook(o) ==
  [id |-> o[IdKey],
   title |-> PickField(o, FieldTitle),
   author |-> PickField(o, FieldAuthor),
   publisher |-> PickField(o, FieldPublisher)]

MapBooks(objs) == [k \in 1..Len(objs) |-> ToBook(objs[k])]

(***************************************************************************)
(* The search of the strict variant (src/src/App.jsx): runSearch and the   *)
(* memoized filtered.                                                      *)
(***************************************************************************)
\* A surrogate pair of the model: two code units, one code point.
HighSurrogate == "<U+D83D>"

LowSurrogate == "<U+DE00>"

\* Array.from(s).length: the number of code points of s.
RECURSIVE CodePointCount(_)
CodePointCount(s) ==
  IF s = <<>> THEN 0
  ELSE IF Len(s) >= 2 /\ s[1] = HighSurrogate /\ s[2] = LowSurrogate
       THEN 1 + CodePointCount(SubSeq(s, 3, Len(s)))
       ELSE 1 + CodePointCount(Tail(s))

\* The messages of setError.
ErrNone == ""

ErrEmptyQuery == "enter a search term"

ErrTooShort == "enter at least 2 characters"

ErrNoSite == "select a library first"

\* Array.prototype.filter with the predicate of the strict variant:
\* normalizeText(b[selectedField]).includes(q)
RECURSIVE StrictFilter(_, _, _)
StrictFilter(books, selectedField, q) ==
  IF books = <<>> THEN <<>>
  ELSE (IF Includes(normalizeText(BookField(Head(books), selectedField)), q)
        THEN <<Head(books)>> ELSE <<>>)
       \o StrictFilter(Tail(books), selectedField, q)

\* Faulty variant: the query is compared as submitted, not normalized.
StrictFilteredRawQuery(books, selectedField, submittedQuery) ==
  IF normalizeText(submittedQuery) = <<>> THEN <<>>
  ELSE StrictFilter(books, selectedField, submittedQuery)

\* Faulty variant: an empty query is not set apart, and is contained in the
\* field of every book.
StrictFilteredUnguarded(books, selectedField, submittedQuery) ==
  StrictFilter(books, selectedField, normalizeText(submittedQuery))

\* const filtered = useMemo(...)
StrictFiltered(books, selectedField, submittedQuery) ==
  IF normalizeText(submittedQuery) = <<>> THEN <<>>
  ELSE StrictFilter(books, selectedField, normalizeText(submittedQuery))

(***************************************************************************)
(* The search of the lenient variant (src/unnamed/part_000).               *)
(***************************************************************************)
normalizeBase(s) == ReplaceWsRuns(ToLowerCase(Trim(s)), <<SP>>)

normalizeNoSpace(s) == ReplaceWsRuns(normalizeBase(s), <<>>)

\* Faulty variant: only the space-collapsed forms are compared.
LenientMatchBaseOnly(target, submittedQuery) ==
  Includes(normalizeBase(target), normalizeBase(submittedQuery))

\* Faulty variant: the space-stripped field is compared with the query whose
\* spaces are collapsed, not stripped.
LenientMatchQueryUnstripped(target, submittedQuery) ==
  Includes(normalizeNoSpace(target), normalizeBase(submittedQuery))

\* t.includes(q) || tNoSpace.includes(qNoSpace)
LenientMatch(target, submittedQuery) ==
  \/ Includes(normalizeBase(target), normalizeBase(submittedQuery))
  \/ Includes(normalizeNoSpace(target), normalizeNoSpace(submittedQuery))

RECURSIVE LenientFilter(_, _, _)
LenientFilter(books, selectedField, submittedQuery) ==
  IF books = <<>> THEN <<>>
  ELSE (IF LenientMatch(BookField(Head(books), selectedField), submittedQuery)
        THEN <<Head(books)>> ELSE <<>>)
       \o LenientFilter(Tail(books), selectedField, submittedQuery)

\* const filtered = useMemo(...)
LenientFiltered(books, selectedField, submittedQuery) ==
  IF normalizeBase(submittedQuery) = <<>> THEN <<>>
  ELSE LenientFilter(books, selectedField, submittedQuery)

\* SITE_OPTIONS, the values; "" is no library selected.
SiteNone == ""

Sites == {"3", "4"}

\* const books = site ? cache[site] ?? [] : []
SiteBooks(site, cache) ==
  IF site # SiteNone /\ cache[site].loaded THEN cache[site].books ELSE <<>>

(***************************************************************************)
(* Pagination (src/src/App.jsx and src/unnamed/part_000): totalPages,      *)
(* safePage and pageItems of a render.                                     *)
(***************************************************************************)
PAGE_SIZE == 10

Max(a, b) == IF a >= b THEN a ELSE b

Min(a, b) == IF a <= b THEN a ELSE b

\* Math.floor(n / d) for n >= 0 and d > 0.
FloorDiv(n, d) == n \div d

\* Math.ceil(n / d) for n >= 0 and d > 0.
CeilDiv(n, d) == IF n % d = 0 THEN n \div d ELSE (n \div d) + 1

\* Faulty variant: the last, partial page is not counted.
TotalPagesFloor(totalResults) == Max(1, FloorDiv(totalResults, PAGE_SIZE))

\* Math.max(1, Math.ceil(totalResults / PAGE_SIZE))
TotalPages(totalResults) == Max(1, CeilDiv(totalResults, PAGE_SIZE))

\* Math.min(Math.max(1, currentPage), totalPages)
SafePage(currentPage, totalPages) == Min(Max(1, currentPage), totalPages)

\* Array.prototype.slice(start, end), start and end 0-based, end excluded; a
\* negative index counts from the end of the array.
Slice(s, start, end) ==
  LET from == IF start < 0 THEN Max(Len(s) + start, 0) ELSE Min(start, Len(s))
      to == IF end < 0 THEN Max(Len(s) + end, 0) ELSE Min(end, Len(s))
  IN SubSeq(s, from + 1, to)

\* filtered.slice(start, start + PAGE_SIZE), start = (safePage - 1) * PAGE_SIZE
PageItems(filtered, safePage) ==
  Slice(filtered, (safePage - 1) * PAGE_SIZE,
        (safePage - 1) * PAGE_SIZE + PAGE_SIZE)

(***************************************************************************)
(* The parser as a state machine: one action per branch of the loop body.  *)
(***************************************************************************)
CsvAlphabet == {"a", COMMA, DQ, LF, CR, SP}

\* The example inputs of the specification's testable properties.
TextQuotedComma == <<DQ, "x", COMMA, SP, "y", DQ, COMMA, "T", COMMA, "P">>

TextEscapedQuotes ==
  <<DQ, "H", "e", SP, "s", "a", "i", "d", SP, DQ, DQ, "h", "i", DQ, DQ, DQ,
    COMMA, "A", COMMA, "B">>

TextCRLF == <<"a", COMMA, "b", CR, LF, "c", COMMA, "d">>

TextLF == <<"a", COMMA, "b", LF, "c", COMMA, "d">>

TextBlankLine == <<"a", LF, COMMA, SP, COMMA, LF, "b", LF>>

CsvExamples ==
  {TextQuotedComma, TextEscapedQuotes, TextCRLF, TextLF, TextBlankLine}

CsvTexts == StringsUpTo(CsvAlphabet, MaxTextLen) \cup CsvExamples

Idle == [pc |-> "idle"]

CsvParser == [i |-> csv.i, rows |-> csv.rows, row |-> csv.row,
              field |-> csv.field, inQuotes |-> csv.inQuotes]

CsvCh == CharAt(csv.text, csv.i)

CsvAfter(st) ==
  [text |-> csv.text, pc |-> "scan", i |-> st.i, rows |-> st.rows,
   row |-> st.row, field |-> st.field, inQuotes |-> st.inQuotes]

CsvInit ==
  /\ \E t \in CsvTexts :
       csv = [text |-> t, pc |-> "scan", i |-> 1, rows |-> <<>>,
              row |-> <<>>, field |-> <<>>, inQuotes |-> FALSE]
  /\ hdr = Idle
  /\ obj = Idle
  /\ app = Idle
  /\ multi = Idle

CsvScanning == csv.pc = "scan" /\ csv.i <= Len(csv.text)

ScanQuote ==
  /\ CsvScanning
  /\ CsvCh = DQ
  /\ csv' = CsvAfter(QuoteStep(csv.text, CsvParser))
  /\ UNCHANGED <<hdr, obj, app, multi>>

ScanComma ==
  /\ CsvScanning
  /\ CsvCh # DQ
  /\ IsFieldSeparator(CsvParser, CsvCh)
  /\ csv' = CsvAfter(CommaStep(csv.text, CsvParser))
  /\ UNCHANGED <<hdr, obj, app, multi>>

ScanTerminator ==
  /\ CsvScanning
  /\ CsvCh # DQ
  /\ ~IsFieldSeparator(CsvParser, CsvCh)
  /\ IsRowTerminator(CsvParser, CsvCh)
  /\ csv' = CsvAfter(TerminatorStep(csv.text, CsvParser))
  /\ UNCHANGED <<hdr, obj, app, multi>>

ScanOther ==
  /\ CsvScanning
  /\ CsvCh # DQ
  /\ ~IsFieldSeparator(CsvParser, CsvCh)
  /\ ~IsRowTerminator(CsvParser, CsvCh)
  /\ csv' = CsvAfter(AppendStep(csv.text, CsvParser))
  /\ UNCHANGED <<hdr, obj, app, multi>>

\* The loop has ended: the last row is flushed and rows is returned.
ScanFlush ==
  /\ csv.pc = "scan"
  /\ csv.i > Len(csv.text)
  /\ csv' = [CsvAfter(FlushStep(CsvParser)) EXCEPT !.pc = "done"]
  /\ UNCHANGED <<hdr, obj, app, multi>>

CsvNext == ScanQuote \/ ScanComma \/ ScanTerminator \/ ScanOther \/ ScanFlush

SpecCsv == CsvInit /\ [][CsvNext]_vars

(***************************************************************************)
(* normalizeHeader applied to one header cell.                             *)
(***************************************************************************)
HeaderAlphabet == {"a", "T", SP, BOM}

CellTitleName == <<SP, "T", "i", "t", "l", "e", SP, "N", "a", "m", "e", SP>>

CellBomTab == <<BOM, "a", TAB, SP, "b", LF>>

HeaderInputs ==
  StringsUpTo(HeaderAlphabet, MaxCellLen) \cup {CellTitleName, CellBomTab}

HdrInit ==
  /\ \E h \in HeaderInputs : hdr = [pc |-> "call", h |-> h, key |-> <<>>]
  /\ csv = Idle
  /\ obj = Idle
  /\ app = Idle
  /\ multi = Idle

HdrNormalize ==
  /\ hdr.pc = "call"
  /\ hdr' = [hdr EXCEPT !.pc = "done", !.key = normalizeHeader(hdr.h)]
  /\ UNCHANGED <<csv, obj, app, multi>>

HdrNext == HdrNormalize

SpecHeader == HdrInit /\ [][HdrNext]_vars

(***************************************************************************)
(* rowsToObjects as a state machine: one step per call of the map          *)
(* callback, then the mapping of the objects to books.                     *)
(***************************************************************************)
\* Header cells: empty, with inner and outer blanks, a duplicate of its
\* normal form, and the names the objectifier itself uses as keys.
HeaderCells ==
  { <<>>, <<SP, "a", SP, "b", SP>>, <<"a", "b">>, IdKey,
    ColumnPlaceholder(0), ProtoKey }

\* The cell of data row k (1-based) and column i (1-based): padded with
\* whitespace, and different for every position.
DataCell(k, i) ==
  <<SP, "r">> \o DecimalString(k) \o <<"c">> \o DecimalString(i) \o <<TAB>>

\* Shapes of a data row: n >= 1 is a row of n cells, from shorter than the
\* header to longer; 0 is a full row whose first cell is blank.
RowShapes == 0..(MaxCols + 1)

DataRow(k, shape) ==
  IF shape = 0
  THEN [i \in 1..MaxCols |-> IF i = 1 THEN <<SP>> ELSE DataCell(k, i)]
  ELSE [i \in 1..shape |-> DataCell(k, i)]

\* n data rows whose shapes follow each other in a cycle that starts at
\* shape first: every shape occurs at every row position.
CycledRows(first, n) ==
  [k \in 1..n |-> DataRow(k, (first + k - 1) % (MaxCols + 2))]

\* n data rows that all are the one-cell row x.
SameRows(n) == [k \in 1..n |-> << <<"x">> >>]

HeaderRows ==
  { h \in UNION { [1..n -> HeaderCells] : n \in 1..MaxCols } :
      RowHasContent(h) }

\* The inputs: no row at all, or a header row followed by data rows, every
\* row with a cell that is not blank, as parseCSV returns them.
ObjInit ==
  /\ \/ obj = [pc |-> "call", rows |-> <<>>, idx |-> 0, out |-> <<>>,
               books |-> <<>>]
     \/ \E h \in HeaderRows, n \in 0..MaxRows :
          \E data \in {CycledRows(first, n) : first \in RowShapes}
                        \cup {SameRows(n)} :
            obj = [pc |-> "call", rows |-> <<h>> \o data, idx |-> 0,
                   out |-> <<>>, books |-> <<>>]
  /\ csv = Idle
  /\ hdr = Idle
  /\ app = Idle
  /\ multi = Idle

\* if (!rows.length) return []
ObjReturnEmpty ==
  /\ obj.pc = "call"
  /\ obj.rows = <<>>
  /\ obj' = [obj EXCEPT !.pc = "objs"]
  /\ UNCHANGED <<csv, hdr, app, multi>>

\* One call of the map callback.
ObjMapRow ==
  /\ obj.pc = "call"
  /\ obj.rows # <<>>
  /\ obj.idx < Len(obj.rows) - 1
  /\ obj' = [obj EXCEPT
               !.out = Append(@, RowToObject(HeadersOf(obj.rows),
                                             obj.rows[obj.idx + 2], obj.idx)),
               !.idx = @ + 1]
  /\ UNCHANGED <<csv, hdr, app, multi>>

ObjReturn ==
  /\ obj.pc = "call"
  /\ obj.rows # <<>>
  /\ obj.idx = Len(obj.rows) - 1
  /\ obj' = [obj EXCEPT !.pc = "objs"]
  /\ UNCHANGED <<csv, hdr, app, multi>>

\* const mapped = objs.map(...)
ObjMapBooks ==
  /\ obj.pc = "objs"
  /\ obj' = [obj EXCEPT !.pc = "done", !.books = MapBooks(obj.out)]
  /\ UNCHANGED <<csv, hdr, app, multi>>

ObjNext == ObjReturnEmpty \/ ObjMapRow \/ ObjReturn \/ ObjMapBooks

SpecObj == ObjInit /\ [][ObjNext]_vars

(***************************************************************************)
(* The search as a state machine: the page after its books are loaded, a   *)
(* query typed into the input; the events are the search and the choice of *)
(* the field.                                                              *)
(***************************************************************************)
FilterAlphabet == {"a", "B", SP}

FilterStrings == StringsUpTo(FilterAlphabet, MaxStrLen)

QueryFoobar == <<"f", "o", "o", "b", "a", "r">>

QueryFooBarSpaced ==
  <<SP, "f", "o", "o", SP, SP, SP, "b", "a", "r", SP>>

FilterQueries == FilterStrings \cup {QueryFoobar, QueryFooBarSpaced}

\* The fields of three books; a book's fields are trimmed, as ToBook leaves
\* them.
CuratedFields ==
  << [title |-> <<"f", "o", "o", SP, "b", "a", "r">>,
      author |-> <<"a", SP, "B">>,
      publisher |-> <<"b">>],
     [title |-> <<"F", "O", "O", TAB, SP, "B", "A", "R">>,
      author |-> <<"B", "a">>,
      publisher |-> <<"a", SP, SP, "b">>],
     [title |-> <<"a", "b">>,
      author |-> <<"a">>,
      publisher |-> <<"B", SP, "a">>] >>

BookAt(k, fields) ==
  [id |-> DecimalString(k - 1), title |-> fields.title,
   author |-> fields.author, publisher |-> fields.publisher]

\* One book with any trimmed title, and lists of two or more of the three
\* books above; the k-th book of a list has the identifier of data row k.
FilterBookLists ==
  { << BookAt(1, [title |-> Trim(v), author |-> <<"B">>,
                  publisher |-> <<"a", SP, "a">>]) >> : v \in FilterStrings }
  \cup
  UNION { { [k \in 1..n |-> BookAt(k, CuratedFields[pick[k]])] :
              pick \in [1..n -> 1..Len(CuratedFields)] } :
          n \in 2..MaxBooks }

AppInit ==
  /\ \E books \in FilterBookLists, q \in FilterQueries :
       app = [loading |-> FALSE, loadError |-> "", books |-> books,
              selectedField |-> FieldTitle, query |-> q,
              submittedQuery |-> <<>>, error |-> ErrNone, currentPage |-> 1]
  /\ csv = Idle
  /\ hdr = Idle
  /\ obj = Idle
  /\ multi = Idle

\* runSearch of App.jsx.
AppRunSearch ==
  /\ ~app.loading
  /\ LET trimmed == Trim(app.query) IN
       \/ /\ trimmed = <<>>
          /\ app' = [app EXCEPT !.error = ErrEmptyQuery,
                                !.submittedQuery = <<>>, !.currentPage = 1]
       \/ /\ trimmed # <<>>
          /\ CodePointCount(trimmed) < 2
          /\ app' = [app EXCEPT !.error = ErrTooShort,
                                !.submittedQuery = <<>>, !.currentPage = 1]
       \/ /\ trimmed # <<>>
          /\ CodePointCount(trimmed) >= 2
          /\ app' = [app EXCEPT !.error = ErrNone,
                                !.submittedQuery = trimmed, !.currentPage = 1]
  /\ UNCHANGED <<csv, hdr, obj, multi>>

\* onChange of the field select.
AppSelectField ==
  /\ ~app.loading
  /\ \E f \in FieldOptions :
       app' = [app EXCEPT !.selectedField = f, !.currentPage = 1]
  /\ UNCHANGED <<csv, hdr, obj, multi>>

AppNext == AppRunSearch \/ AppSelectField

SpecStrictSearch == AppInit /\ [][AppNext]_vars

\* The filtered value the page renders.
AppFiltered == StrictFiltered(app.books, app.selectedField, app.submittedQuery)

\* The lenient variant: library 3 is loaded into the cache, and selected or
\* not.
MultiInit ==
  /\ \E books \in FilterBookLists, q \in FilterQueries,
        site \in {SiteNone, "3"} :
       multi = [loading |-> FALSE, loadError |-> "", site |-> site,
                selectedField |-> FieldTitle, query |-> q,
                submittedQuery |-> <<>>, error |-> ErrNone, currentPage |-> 1,
                cache |-> [x \in Sites |->
                             IF x = "3"
                             THEN [loaded |-> TRUE, books |-> books]
                             ELSE [loaded |-> FALSE, books |-> <<>>]]]
  /\ csv = Idle
  /\ hdr = Idle
  /\ obj = Idle
  /\ app = Idle

\* runSearch of the lenient variant when no fetch is needed: the awaited
\* loadSiteBooksIfNeeded returns at once, and the rest runs before any
\* other event.
MultiRunSearchCached ==
  /\ ~multi.loading
  /\ LET trimmed == Trim(multi.query) IN
       \/ /\ multi.site = SiteNone
          /\ multi' = [multi EXCEPT !.error = ErrNoSite,
                                    !.submittedQuery = <<>>,
                                    !.currentPage = 1]
       \/ /\ multi.site # SiteNone
          /\ trimmed = <<>>
          /\ multi' = [multi EXCEPT !.error = ErrEmptyQuery,
                                    !.submittedQuery = <<>>,
                                    !.currentPage = 1]
       \/ /\ multi.site # SiteNone
          /\ trimmed # <<>>
          /\ multi.cache[multi.site].loaded
          /\ multi' = [multi EXCEPT !.loading = FALSE, !.loadError = "",
                                    !.error = ErrNone,
                                    !.submittedQuery = trimmed,
                                    !.currentPage = 1]
  /\ UNCHANGED <<csv, hdr, obj, app>>

\* Faulty variant: the choice of the field leaves the page where it is.
MultiSelectFieldKeepingPage ==
  /\ ~multi.loading
  /\ \E f \in FieldOptions :
       multi' = [multi EXCEPT !.selectedField = f]
  /\ UNCHANGED <<csv, hdr, obj, app>>

\* onChange of the field select.
MultiSelectField ==
  /\ ~multi.loading
  /\ \E f \in FieldOptions :
       multi' = [multi EXCEPT !.selectedField = f, !.currentPage = 1]
  /\ UNCHANGED <<csv, hdr, obj, app>>

MultiNext == MultiRunSearchCached \/ MultiSelectField

SpecLenientSearch == MultiInit /\ [][MultiNext]_vars

MultiBooks == SiteBooks(multi.site, multi.cache)

\* The filtered value the page renders.
MultiFiltered ==
  LenientFiltered(MultiBooks, multi.selectedField, multi.submittedQuery)

(***************************************************************************)
(* The two pages as state machines, from their first render on: the load   *)
(* of the books, the typing of a query, the search, the choice of the      *)
(* field and of the library, and the pager.  pending holds the fetches in  *)
(* flight, each with the locals of the handler that awaits it.             *)
(***************************************************************************)
\* A combining mark: a code point of its own that is drawn on the character
\* before it.
COMBINING == "<U+0301>"

QueryBlank == <<SP>>

QueryOneChar == <<"a">>

QueryAb == <<"a", "b">>

QueryABSpaced == <<SP, "a", SP, "b", SP>>

\* One character stored as two code units.
QueryOnePair == <<HighSurrogate, LowSurrogate>>

QueryTwoPairs == <<HighSurrogate, LowSurrogate, HighSurrogate, LowSurrogate>>

\* One character made of a letter and a combining mark.
QueryAccented == <<"e", COMBINING>>

\* The values typed into the query input.
UiQueries ==
  { <<>>, QueryBlank, QueryOneChar, QueryAb, QueryABSpaced, QueryOnePair,
    QueryTwoPairs, QueryAccented }

\* The header line of a books file.
DatasetHeader ==
  FieldTitle \o <<COMMA>> \o FieldAuthor \o <<COMMA>> \o FieldPublisher

\* The k-th line of the long books file: title "ab k", author B, publisher p.
DatasetLine(k) ==
  <<"a", "b", SP>> \o DecimalString(k) \o <<COMMA, "B", COMMA, "p">>

RECURSIVE DatasetLines(_)
DatasetLines(n) ==
  IF n = 0 THEN <<>> ELSE DatasetLines(n - 1) \o <<LF>> \o DatasetLine(n)

\* A books file with more rows than a page holds.
LongDataset == DatasetHeader \o DatasetLines(MaxDataRows)

\* A books file of two rows, the titles "a b" and "ab", with CR LF line ends.
ShortDataset ==
  DatasetHeader \o <<CR, LF, "a", SP, "b", COMMA, "B", COMMA, "p", CR, LF,
                     "a", "b", COMMA, "a", COMMA, "b", CR, LF>>

\* The texts a books file is answered with.
DatasetTexts == {ShortDataset, LongDataset}

\* The status codes of an answer with res.ok false.
FailStatuses == {"404", "500"}

\* What a fetch rejects with: a TypeError and its message.
FetchRejections == { [isError |-> TRUE, message |-> <<"Failed to fetch">>] }

\* The message of setLoadError; the empty sequence is "".
NoLoadError == <<>>

UnknownLoadError == <<"unknown error">>

\* e instanceof Error ? e.message : "..."
LoadErrorOf(e) == IF e.isError THEN e.message ELSE UnknownLoadError

\* new Error(`... (HTTP ${res.status})`) of the load effect of App.jsx.
AppHttpError(status) ==
  [isError |-> TRUE,
   message |-> <<"the CSV could not be loaded. (HTTP ", status, ")">>]

\* parseCSV, rowsToObjects and objs.map(...) on the text of the answer.
BooksOfText(text) == MapBooks(rowsToObjects(parseCSV(text)))

\* The books every text the server can answer with is parsed and mapped to.
DatasetBooks == [text \in DatasetTexts |-> BooksOfText(text)]

\* filtered, totalPages and safePage of a render of App.jsx.
AppFilteredOf(a) == StrictFiltered(a.books, a.selectedField, a.submittedQuery)

AppTotalPagesOf(a) == TotalPages(Len(AppFilteredOf(a)))

AppSafePageOf(a) == SafePage(a.currentPage, AppTotalPagesOf(a))

\* The effect on [safePage] that follows a render:
\* if (currentPage !== safePage) setCurrentPage(safePage)
AppSyncPage(old, new) ==
  IF AppSafePageOf(new) # AppSafePageOf(old)
     /\ new.currentPage # AppSafePageOf(new)
  THEN [new EXCEPT !.currentPage = AppSafePageOf(new)]
  ELSE new

\* The first render of App.jsx: the initial values of useState.
AppPageInit ==
  /\ app = [pc |-> "page", mounted |-> FALSE, loading |-> TRUE,
            loadError |-> NoLoadError, books |-> <<>>,
            selectedField |-> FieldTitle, query |-> <<>>,
            submittedQuery |-> <<>>, error |-> ErrNone, currentPage |-> 1,
            pending |-> <<>>]
  /\ csv = Idle
  /\ hdr = Idle
  /\ obj = Idle
  /\ multi = Idle

AppLive == app # Idle /\ app.pc = "page"

\* disabled={loading} of the select, the input and the button.
AppDisabled == app.loading

\* The load effect up to its first await: the fetch of books.csv starts.
AppMount ==
  /\ AppLive
  /\ ~app.mounted
  /\ app' = [app EXCEPT !.mounted = TRUE, !.loading = TRUE,
                        !.loadError = NoLoadError,
                        !.pending = Append(@, [url |-> "books.csv"])]
  /\ UNCHANGED <<csv, hdr, obj, multi>>

\* The fetch is answered with res.ok and a text: the books are set.
AppFetchOk ==
  /\ AppLive
  /\ app.pending # <<>>
  /\ \E text \in DatasetTexts :
       app' = AppSyncPage(app,
                [app EXCEPT !.books = DatasetBooks[text], !.loading = FALSE,
                            !.pending = Tail(@)])
  /\ UNCHANGED <<csv, hdr, obj, multi>>

\* The fetch is answered with res.ok false: the effect throws and catches.
AppFetchNotOk ==
  /\ AppLive
  /\ app.pending # <<>>
  /\ \E status \in FailStatuses :
       app' = [app EXCEPT !.loadError = LoadErrorOf(AppHttpError(status)),
                          !.loading = FALSE, !.pending = Tail(@)]
  /\ UNCHANGED <<csv, hdr, obj, multi>>

\* The fetch, or the reading of the text, rejects.
AppFetchReject ==
  /\ AppLive
  /\ app.pending # <<>>
  /\ \E e \in FetchRejections :
       app' = [app EXCEPT !.loadError = LoadErrorOf(e), !.loading = FALSE,
                          !.pending = Tail(@)]
  /\ UNCHANGED <<csv, hdr, obj, multi>>

\* onChange of the query input.
AppTypeQuery ==
  /\ AppLive
  /\ ~AppDisabled
  /\ \E q \in UiQueries \ {app.query} : app' = [app EXCEPT !.query = q]
  /\ UNCHANGED <<csv, hdr, obj, multi>>

\* The search button or the Enter key.
AppPageRunSearch == AppLive /\ AppRunSearch

\* The field select.
AppPageSelectField == AppLive /\ AppSelectField

\* The pager is rendered: !loading && totalResults > PAGE_SIZE
AppPagerShown == ~app.loading /\ Len(AppFilteredOf(app)) > PAGE_SIZE

\* The previous button: setCurrentPage((p) => Math.max(1, p - 1))
AppPrevPage ==
  /\ AppLive
  /\ AppPagerShown
  /\ AppSafePageOf(app) # 1
  /\ app' = AppSyncPage(app,
              [app EXCEPT !.currentPage = Max(1, app.currentPage - 1)])
  /\ UNCHANGED <<csv, hdr, obj, multi>>

\* The next button: setCurrentPage((p) => Math.min(totalPages, p + 1))
AppNextPage ==
  /\ AppLive
  /\ AppPagerShown
  /\ AppSafePageOf(app) # AppTotalPagesOf(app)
  /\ app' = AppSyncPage(app,
              [app EXCEPT !.currentPage =
                            Min(AppTotalPagesOf(app), app.currentPage + 1)])
  /\ UNCHANGED <<csv, hdr, obj, multi>>

AppPageNext ==
  \/ AppMount
  \/ AppFetchOk
  \/ AppFetchNotOk
  \/ AppFetchReject
  \/ AppTypeQuery
  \/ AppPageRunSearch
  \/ AppPageSelectField
  \/ AppPrevPage
  \/ AppNextPage

SpecStrictPage == AppPageInit /\ [][AppPageNext]_vars

(***************************************************************************)
(* The page of the multi-dataset variant (src/unnamed/part_000).           *)
(***************************************************************************)
\* CSV_BY_SITE
CsvBySite(siteValue) ==
  CASE siteValue = "3" -> "books_3.csv"
    [] siteValue = "4" -> "books_4.csv"
    [] OTHER -> UNDEFINED

\* new Error("... CSV_BY_SITE ...") of loadSiteBooksIfNeeded.
MultiNoCsvError ==
  [isError |-> TRUE, message |-> <<"no CSV file is configured">>]

\* new Error(`${filename} ... (HTTP ${res.status})`)
MultiHttpError(filename, status) ==
  [isError |-> TRUE,
   message |-> <<filename, " could not be loaded. (HTTP ", status, ")">>]

\* Faulty variant: the cache is not looked at.
NeedsFetchUncached(cache, siteValue) == siteValue # SiteNone

\* loadSiteBooksIfNeeded goes on to fetch: neither !siteValue nor
\* cache[siteValue] made it return.
NeedsFetch(cache, siteValue) ==
  siteValue # SiteNone /\ ~cache[siteValue].loaded

\* Faulty variant: the new cache holds the loaded library alone.
CachePutAlone(prev, siteValue, mapped) ==
  [x \in DOMAIN prev |->
     IF x = siteValue THEN [loaded |-> TRUE, books |-> mapped]
     ELSE [loaded |-> FALSE, books |-> <<>>]]

\* setCache((prev) => ({ ...prev, [siteValue]: mapped }))
CachePut(prev, siteValue, mapped) ==
  [prev EXCEPT ![siteValue] = [loaded |-> TRUE, books |-> mapped]]

\* The sequence s without its k-th element.
RemoveAt(s, k) == SubSeq(s, 1, k - 1) \o SubSeq(s, k + 1, Len(s))

\* Faulty variant: a load that has thrown caches an empty list of books.
MultiLoadThrewCachingEmpty(m, f, e) ==
  [m EXCEPT !.loadError = LoadErrorOf(e), !.submittedQuery = <<>>,
            !.currentPage = 1, !.loading = FALSE,
            !.cache = CachePut(@, f.site, <<>>)]

\* Faulty variant: loading is not reset when the load has thrown.
MultiLoadThrewStillLoading(m, f, e) ==
  IF f.kind = "search"
  THEN [m EXCEPT !.loadError = LoadErrorOf(e), !.submittedQuery = <<>>,
                 !.currentPage = 1]
  ELSE [m EXCEPT !.loadError = LoadErrorOf(e)]

\* The awaited load of handler frame f has thrown e: the catch and the
\* finally of runSearch (kind "search") or of the library select.
MultiLoadThrew(m, f, e) ==
  IF f.kind = "search"
  THEN [m EXCEPT !.loadError = LoadErrorOf(e), !.submittedQuery = <<>>,
                 !.currentPage = 1, !.loading = FALSE]
  ELSE [m EXCEPT !.loadError = LoadErrorOf(e), !.loading = FALSE]

\* The awaited load of handler frame f has returned: the rest of the try
\* and the finally.
MultiLoadReturned(m, f) ==
  IF f.kind = "search"
  THEN [m EXCEPT !.submittedQuery = f.trimmed, !.currentPage = 1,
                 !.loading = FALSE]
  ELSE [m EXCEPT !.loading = FALSE]

\* loadSiteBooksIfNeeded(f.site) called by handler frame f in page state m,
\* up to its return, its throw or its first await.
MultiLoadCall(m, f) ==
  IF ~NeedsFetch(m.cache, f.site) THEN MultiLoadReturned(m, f)
  ELSE IF CsvBySite(f.site) = UNDEFINED
       THEN MultiLoadThrew(m, f, MultiNoCsvError)
       ELSE [m EXCEPT !.pending = Append(@, f)]

\* The first render: the initial values of useState.
MultiPageInit ==
  /\ multi = [pc |-> "page", loading |-> FALSE, loadError |-> NoLoadError,
              site |-> SiteNone, selectedField |-> FieldTitle,
              query |-> <<>>, submittedQuery |-> <<>>, error |-> ErrNone,
              currentPage |-> 1,
              cache |-> [x \in Sites |-> [loaded |-> FALSE, books |-> <<>>]],
              pending |-> <<>>]
  /\ csv = Idle
  /\ hdr = Idle
  /\ obj = Idle
  /\ app = Idle

MultiLive == multi # Idle /\ multi.pc = "page"

\* Faulty variant: the controls stay enabled during a load.
MultiNeverDisabled == FALSE

\* disabled={loading} of the selects, the input and the button.
MultiDisabled == multi.loading

\* filtered, totalPages and safePage of a render.
MultiFilteredOf(m) ==
  LenientFiltered(SiteBooks(m.site, m.cache), m.selectedField,
                  m.submittedQuery)

MultiTotalPagesOf(m) == TotalPages(Len(MultiFilteredOf(m)))

MultiSafePageOf(m) == SafePage(m.currentPage, MultiTotalPagesOf(m))

\* Faulty variant: a rejected search leaves the submitted query and the
\* page as they are.
MultiRejectSearchKeeping(m, err) == [m EXCEPT !.error = err]

\* The two early returns of runSearch: setError(...), setSubmittedQuery(""),
\* setCurrentPage(1).
MultiRejectSearch(m, err) ==
  [m EXCEPT !.error = err, !.submittedQuery = <<>>, !.currentPage = 1]

\* onChange of the library select, up to the end of the handler or to its
\* await of a fetch.
MultiSelectSite ==
  /\ MultiLive
  /\ ~MultiDisabled
  /\ \E next \in ({SiteNone} \cup Sites) \ {multi.site} :
       LET cleared == [multi EXCEPT !.site = next, !.submittedQuery = <<>>,
                                    !.error = ErrNone,
                                    !.loadError = NoLoadError,
                                    !.currentPage = 1]
       IN \/ /\ next = SiteNone
             /\ multi' = cleared
          \/ /\ next # SiteNone
             /\ multi' = MultiLoadCall([cleared EXCEPT !.loading = TRUE],
                                       [kind |-> "select", site |-> next,
                                        trimmed |-> <<>>])
  /\ UNCHANGED <<csv, hdr, obj, app>>

\* runSearch, up to its end or to its await of a fetch.
MultiRunSearch ==
  /\ MultiLive
  /\ ~MultiDisabled
  /\ LET trimmed == Trim(multi.query) IN
       \/ /\ multi.site = SiteNone
          /\ multi' = MultiRejectSearch(multi, ErrNoSite)
       \/ /\ multi.site # SiteNone
          /\ trimmed = <<>>
          /\ multi' = MultiRejectSearch(multi, ErrEmptyQuery)
       \/ /\ multi.site # SiteNone
          /\ trimmed # <<>>
          /\ multi' = MultiLoadCall(
                        [multi EXCEPT !.loading = TRUE,
                                      !.loadError = NoLoadError,
                                      !.error = ErrNone],
                        [kind |-> "search", site |-> multi.site,
                         trimmed |-> trimmed])
  /\ UNCHANGED <<csv, hdr, obj, app>>

\* A fetch is answered with res.ok and a text: the books are cached and the
\* handler that awaited the load goes on.
MultiFetchOk ==
  /\ MultiLive
  /\ \E k \in 1..Len(multi.pending), text \in DatasetTexts :
       LET f == multi.pending[k] IN
       multi' = MultiLoadReturned(
                  [multi EXCEPT
                     !.cache = CachePut(@, f.site, DatasetBooks[text]),
                     !.pending = RemoveAt(@, k)], f)
  /\ UNCHANGED <<csv, hdr, obj, app>>

\* A fetch is answered with res.ok false.
MultiFetchNotOk ==
  /\ MultiLive
  /\ \E k \in 1..Len(multi.pending), status \in FailStatuses :
       LET f == multi.pending[k] IN
       multi' = MultiLoadThrew([multi EXCEPT !.pending = RemoveAt(@, k)], f,
                               MultiHttpError(CsvBySite(f.site), status))
  /\ UNCHANGED <<csv, hdr, obj, app>>

\* A fetch, or the reading of its text, rejects.
MultiFetchReject ==
  /\ MultiLive
  /\ \E k \in 1..Len(multi.pending), e \in FetchRejections :
       LET f == multi.pending[k] IN
       multi' = MultiLoadThrew([multi EXCEPT !.pending = RemoveAt(@, k)], f, e)
  /\ UNCHANGED <<csv, hdr, obj, app>>

\* onChange of the query input.
MultiTypeQuery ==
  /\ MultiLive
  /\ ~MultiDisabled
  /\ \E q \in UiQueries \ {multi.query} : multi' = [multi EXCEPT !.query = q]
  /\ UNCHANGED <<csv, hdr, obj, app>>

\* The field select.
MultiPageSelectField == MultiLive /\ ~MultiDisabled /\ MultiSelectField

\* The pager is rendered: !loading && totalResults > PAGE_SIZE
MultiPagerShown == ~multi.loading /\ Len(MultiFilteredOf(multi)) > PAGE_SIZE

\* The previous button.
MultiPrevPage ==
  /\ MultiLive
  /\ MultiPagerShown
  /\ MultiSafePageOf(multi) # 1
  /\ multi' = [multi EXCEPT !.currentPage = Max(1, multi.currentPage - 1)]
  /\ UNCHANGED <<csv, hdr, obj, app>>

\* The next button.
MultiNextPage ==
  /\ MultiLive
  /\ MultiPagerShown
  /\ MultiSafePageOf(multi) # MultiTotalPagesOf(multi)
  /\ multi' = [multi EXCEPT !.currentPage =
                              Min(MultiTotalPagesOf(multi),
                                  multi.currentPage + 1)]
  /\ UNCHANGED <<csv, hdr, obj, app>>

MultiPageNext ==
  \/ MultiSelectSite
  \/ MultiRunSearch
  \/ MultiFetchOk
  \/ MultiFetchNotOk
  \/ MultiFetchReject
  \/ MultiTypeQuery
  \/ MultiPageSelectField
  \/ MultiPrevPage
  \/ MultiNextPage

SpecMultiPage == MultiPageInit /\ [][MultiPageNext]_vars

\* Either page, from its first render on.
PagesInit == AppPageInit \/ MultiPageInit

PagesNext == AppPageNext \/ MultiPageNext

SpecPages == PagesInit /\ [][PagesNext]_vars

\* The fetch in flight is answered or rejects.
AppFetchSettles == AppFetchOk \/ AppFetchNotOk \/ AppFetchReject

MultiFetchSettles == MultiFetchOk \/ MultiFetchNotOk \/ MultiFetchReject

\* The pages when the effect of the first render is run and every fetch is
\* answered or rejects in the end.
SpecPagesFair ==
  /\ PagesInit
  /\ [][PagesNext]_vars
  /\ WF_vars(AppMount)
  /\ WF_vars(AppFetchSettles)
  /\ WF_vars(MultiFetchSettles)

(***************************************************************************)
(* Pagination as a state machine: one render of the page with a result     *)
(* list and a stored page number.                                          *)
(***************************************************************************)
\* The page numbers a render is given: below 1, in range, and far above.
RequestedPages == ((-1)..MaxRequestedPage) \cup {99}

\* n results, told apart by their position.
ResultList(n) == [k \in 1..n |-> k]

PageInit ==
  /\ \E n \in 0..MaxResults, p \in RequestedPages :
       app = [pc |-> "render", filtered |-> ResultList(n), currentPage |-> p,
              totalPages |-> 0, safePage |-> 0, pageItems |-> <<>>]
  /\ csv = Idle
  /\ hdr = Idle
  /\ obj = Idle
  /\ multi = Idle

\* The render computes totalPages, safePage and pageItems.
PageRender ==
  /\ app.pc = "render"
  /\ LET totalPages == TotalPages(Len(app.filtered))
         safePage == SafePage(app.currentPage, totalPages)
     IN app' = [app EXCEPT !.pc = "rendered", !.totalPages = totalPages,
                           !.safePage = safePage,
                           !.pageItems = PageItems(app.filtered, safePage)]
  /\ UNCHANGED <<csv, hdr, obj, multi>>

PageNext == PageRender

SpecPagination == PageInit /\ [][PageNext]_vars

(***************************************************************************)
(* Claims about parseCSV, checked under SpecCsv.                           *)
(***************************************************************************)
Separators == {COMMA, LF, CR}

\* A row with a field that holds a character other than whitespace.
HasVisibleChar(row) ==
  \E k \in 1..Len(row) : \E j \in 1..Len(row[k]) : row[k][j] \notin WhiteSpace

CsvDone == csv.pc = "done"

\* C1: a comma, CR or LF scanned while inQuotes is true is appended to the
\* current field and ends neither a field nor a row; a scan step changes the
\* row or the rows only on a comma, CR or LF scanned while inQuotes is false;
\* the line "x, y",T,P yields exactly one row of the three fields x, y / T / P.
C1_QuotedSeparatorsLiteral ==
  /\ [][(CsvScanning /\ csv.inQuotes /\ CsvCh \in Separators)
          => /\ csv'.field = Append(csv.field, CsvCh)
             /\ csv'.row = csv.row
             /\ csv'.rows = csv.rows
             /\ csv'.inQuotes
             /\ csv'.i = csv.i + 1]_vars
  /\ [][(CsvScanning /\ (csv'.row # csv.row \/ csv'.rows # csv.rows))
          => (~csv.inQuotes /\ CsvCh \in Separators)]_vars
  /\ []((CsvDone /\ csv.text = TextQuotedComma)
          => csv.rows = << << <<"x", COMMA, SP, "y">>, <<"T">>, <<"P">> >> >>)

\* C1 witness: the example line has been parsed to its single row, and a
\* quoted comma has been appended.
C1_Witness ==
  /\ CsvDone
  /\ csv.text = TextQuotedComma
  /\ Len(csv.rows) = 1
  /\ COMMA \in {csv.rows[1][1][j] : j \in 1..Len(csv.rows[1][1])}

\* C2: a double quote toggles inQuotes and adds nothing to the field, unless
\* inQuotes is true and the next character is a double quote: then one
\* double quote is appended, both characters are skipped and inQuotes stays
\* true; "He said ""hi""",A,B yields the one row He said "hi" / A / B.
C2_QuoteToggleAndEscape ==
  /\ [][(CsvScanning /\ CsvCh = DQ)
          => /\ csv'.row = csv.row
             /\ csv'.rows = csv.rows
             /\ IF csv.inQuotes /\ CharAt(csv.text, csv.i + 1) = DQ
                THEN /\ csv'.field = Append(csv.field, DQ)
                     /\ csv'.i = csv.i + 2
                     /\ csv'.inQuotes
                ELSE /\ csv'.field = csv.field
                     /\ csv'.i = csv.i + 1
                     /\ csv'.inQuotes = ~csv.inQuotes]_vars
  /\ []((CsvDone /\ csv.text = TextEscapedQuotes)
          => csv.rows =
               << << <<"H", "e", SP, "s", "a", "i", "d", SP, DQ, "h", "i", DQ>>,
                     <<"A">>, <<"B">> >> >>)

\* C2 witness: the example has been parsed and its first field holds the two
\* unescaped double quotes.
C2_Witness ==
  /\ CsvDone
  /\ csv.text = TextEscapedQuotes
  /\ Len(csv.rows) = 1
  /\ Cardinality({j \in 1..Len(csv.rows[1][1]) : csv.rows[1][1][j] = DQ}) = 2

\* C3: no row of the output, during the scan or after the final flush, has
\* only fields that are empty or whitespace; a text of commas and whitespace
\* alone (the empty text included) yields no row, and a line of commas and
\* blanks or a trailing line terminator adds no row.
C3_NoBlankRow ==
  /\ \A k \in 1..Len(csv.rows) : HasVisibleChar(csv.rows[k])
  /\ (CsvDone /\ \A j \in 1..Len(csv.text) :
                    csv.text[j] \in WhiteSpace \cup {COMMA})
       => csv.rows = <<>>
  /\ (CsvDone /\ csv.text = TextBlankLine)
       => csv.rows = << << <<"a">> >>, << <<"b">> >> >>

\* C3 witness: a text with a line of commas and blanks between two lines and
\* a trailing line terminator has been parsed to two rows.
C3_Witness ==
  /\ CsvDone
  /\ csv.text = TextBlankLine
  /\ Len(csv.rows) = 2

\* The text with every LF that the scan meets outside quotes replaced by
\* CR LF; with all = FALSE the LF of a CR LF pair is left alone.
RECURSIVE LfToCrlfFrom(_, _, _)
LfToCrlfFrom(text, st, all) ==
  IF st.i > Len(text) THEN <<>>
  ELSE LET nxt == ParseStep(text, st)
           ch == text[st.i]
           piece ==
             IF ~st.inQuotes /\ ch = LF THEN <<CR, LF>>
             ELSE IF ~st.inQuotes /\ ch = CR /\ nxt.i = st.i + 2 /\ all
                  THEN <<CR, CR, LF>>
                  ELSE SubSeq(text, st.i, nxt.i - 1)
       IN piece \o LfToCrlfFrom(text, nxt, all)

LfToCrlf(text, all) == LfToCrlfFrom(text, ParserInit, all)

\* C4: CR LF outside quotes is consumed as one terminator that ends one row
\* (pushed unless blank); replacing every unquoted LF terminator by CR LF
\* leaves the rows of every text unchanged; the CRLF and the LF example both
\* parse to the rows a,b and c,d.
C4_CrlfAsLf ==
  /\ [][(CsvScanning /\ ~csv.inQuotes /\ CsvCh = CR
           /\ CharAt(csv.text, csv.i + 1) = LF)
          => /\ csv'.i = csv.i + 2
             /\ csv'.row = <<>>
             /\ csv'.field = <<>>
             /\ csv'.rows =
                  IF HasVisibleChar(Append(csv.row, csv.field))
                  THEN Append(csv.rows, Append(csv.row, csv.field))
                  ELSE csv.rows]_vars
  /\ [](CsvDone =>
          /\ parseCSV(LfToCrlf(csv.text, FALSE)) = csv.rows
          /\ parseCSV(LfToCrlf(csv.text, TRUE)) = csv.rows)
  /\ []((CsvDone /\ csv.text \in {TextCRLF, TextLF})
          => csv.rows = << << <<"a">>, <<"b">> >>, << <<"c">>, <<"d">> >> >>)

\* C4 witness: the CRLF example has been parsed to two rows of two fields.
C4_Witness ==
  /\ CsvDone
  /\ csv.text = TextCRLF
  /\ Len(csv.rows) = 2
  /\ \A k \in 1..2 : Len(csv.rows[k]) = 2


(***************************************************************************)
(* Claims about rowsToObjects, checked under SpecObj.                      *)
(***************************************************************************)
\* The 0-based column indexes of the header.
ObjColumns == 0..(Len(obj.rows[1]) - 1)

\* The key of every column, by its 0-based index.
ObjKeys ==
  LET headers == HeadersOf(obj.rows)
  IN [i \in ObjColumns |-> ColumnKey(headers, i)]

\* The data row (1-based k) of the input.
ObjDataRow(k) == obj.rows[k + 1]

\* The trimmed cell of row r at 0-based column i, empty when r is shorter.
TrimmedCell(r, i) == IF i < Len(r) THEN Trim(r[i + 1]) ELSE <<>>

\* The last column that has the key of column i.
LastColumnWithKey(keys, i) ==
  CHOOSE j \in DOMAIN keys :
    /\ keys[j] = keys[i]
    /\ \A m \in DOMAIN keys : keys[m] = keys[i] => m <= j

\* C5 as stated: every record has the key set of the header (the identifier
\* and one key per column), and under the key of every column i the trimmed
\* cell r[i], or the empty string when the row is shorter than the header.
C5_EveryColumnHeld ==
  obj.out # <<>> =>
    LET keys == ObjKeys IN
    \A k \in 1..Len(obj.out) :
      /\ DOMAIN obj.out[k] = {IdKey} \cup {keys[i] : i \in ObjColumns}
      /\ \A i \in ObjColumns :
           /\ keys[i] \in DOMAIN obj.out[k]
           /\ obj.out[k][keys[i]] = TrimmedCell(ObjDataRow(k), i)

\* C5 amended: every record has the same key set, the identifier and the
\* keys of the columns other than __proto__, whatever the length of the data
\* row; under the key of every column i other than __proto__ it holds the
\* trimmed cell, or the empty string when the row is shorter, of the last
\* column that has the key of i (of i itself when no later column shares it).
C5_LastColumnOfKeyHeld ==
  obj.out # <<>> =>
    LET keys == ObjKeys IN
    \A k \in 1..Len(obj.out) :
      /\ DOMAIN obj.out[k] =
           ({IdKey} \cup {keys[i] : i \in ObjColumns}) \ {ProtoKey}
      /\ \A i \in ObjColumns :
           keys[i] # ProtoKey =>
             obj.out[k][keys[i]] =
               TrimmedCell(ObjDataRow(k), LastColumnWithKey(keys, i))

\* C5 witness: two records have been built from a header with two columns
\* that are named and have one key, one of them from a row shorter than the
\* header and one from a row that has a cell for every column.
C5_Witness ==
  /\ obj.pc = "objs"
  /\ Len(obj.out) >= 2
  /\ \E i, j \in ObjColumns :
       /\ i < j
       /\ ObjKeys[i] = ObjKeys[j]
       /\ ObjKeys[i] \notin {IdKey, ProtoKey}
       /\ HeadersOf(obj.rows)[i + 1] # <<>>
       /\ HeadersOf(obj.rows)[j + 1] # <<>>
  /\ \E k \in 1..Len(obj.out) : Len(ObjDataRow(k)) < Len(obj.rows[1])
  /\ \E k \in 1..Len(obj.out) : Len(ObjDataRow(k)) >= Len(obj.rows[1])

\* C6: the key of a column whose header cell normalizes to the empty string
\* differs from the key of every other column, and every record holds the
\* trimmed cell of that column under it.
C6_PlaceholderKeyUnique ==
  (obj.pc \in {"objs", "done"} /\ obj.rows # <<>>) =>
    LET headers == HeadersOf(obj.rows)
        keys == ObjKeys
    IN \A i \in ObjColumns :
         headers[i + 1] = <<>> =>
           /\ \A j \in ObjColumns \ {i} : keys[j] # keys[i]
           /\ \A k \in 1..Len(obj.out) :
                /\ keys[i] \in DOMAIN obj.out[k]
                /\ obj.out[k][keys[i]] = TrimmedCell(ObjDataRow(k), i)

\* C7: a header row with n data rows gives n records, the identifier of the
\* k-th being the decimal string of k - 1; the identifiers of the records
\* and of the books made from them are pairwise distinct.
C7_IdIsRowIndex ==
  /\ (obj.pc \in {"objs", "done"} /\ obj.rows # <<>>) =>
       /\ Len(obj.out) = Len(obj.rows) - 1
       /\ \A k \in 1..Len(obj.out) : obj.out[k][IdKey] = DecimalString(k - 1)
       /\ \A k, m \in 1..Len(obj.out) :
            k # m => obj.out[k][IdKey] # obj.out[m][IdKey]
  /\ obj.pc = "done" =>
       /\ Len(obj.books) = Len(obj.out)
       /\ \A k \in 1..Len(obj.books) : obj.books[k].id = obj.out[k][IdKey]
       /\ \A k, m \in 1..Len(obj.books) :
            k # m => obj.books[k].id # obj.books[m].id

(***************************************************************************)
(* Claim about normalizeHeader, checked under SpecHeader.                  *)
(***************************************************************************)
NotWhiteSpace(c) == c \notin WhiteSpace

\* C8: the key of a header cell is the cell without its whitespace
\* characters (U+FEFF, which trim and \s treat as whitespace, included):
\* nothing else is removed, changed in case or inserted, so the key holds no
\* whitespace character; ' Title Name ' gives TitleName.
C8_HeaderWithoutWhitespace ==
  hdr.pc = "done" =>
    /\ hdr.key = SelectSeq(hdr.h, NotWhiteSpace)
    /\ \A j \in 1..Len(hdr.key) : hdr.key[j] \notin WhiteSpace
    /\ hdr.h = CellTitleName =>
         hdr.key = <<"T", "i", "t", "l", "e", "N", "a", "m", "e">>

\* C8 witness: the cell ' Title Name ' has been normalized, and its inner
\* space is gone.
C8_Witness ==
  /\ hdr.pc = "done"
  /\ hdr.h = CellTitleName
  /\ Len(hdr.key) = 9


(***************************************************************************)
(* Claims about the search filters, checked under SpecStrictSearch and     *)
(* SpecLenientSearch.                                                      *)
(***************************************************************************)
\* The words of s: its maximal runs of characters that are not whitespace,
\* in lower case.  cur is the word being read.
RECURSIVE WordsFrom(_, _)
WordsFrom(s, cur) ==
  IF s = <<>> THEN (IF cur = <<>> THEN <<>> ELSE <<cur>>)
  ELSE IF Head(s) \in WhiteSpace
       THEN (IF cur = <<>> THEN <<>> ELSE <<cur>>) \o WordsFrom(Tail(s), <<>>)
       ELSE WordsFrom(Tail(s), Append(cur, ToLowerChar(Head(s))))

RECURSIVE JoinWords(_)
JoinWords(ws) ==
  IF ws = <<>> THEN <<>>
  ELSE IF Len(ws) = 1 THEN ws[1]
       ELSE ws[1] \o <<SP>> \o JoinWords(Tail(ws))

\* s trimmed, in lower case, every run of whitespace one space.
Collapsed(s) == JoinWords(WordsFrom(s, <<>>))

\* s in lower case without its whitespace.
Stripped(s) == SelectSeq(ToLowerCase(s), NotWhiteSpace)

\* q occurs in t as a contiguous run of characters.
Contains(t, q) ==
  \E a \in 1..(Len(t) + 1) : \E b \in (a - 1)..Len(t) : SubSeq(t, a, b) = q

\* The subsequence of books at the positions of the set matches, in the
\* order of books.
IsSubsequenceAt(result, books, matches) ==
  /\ Len(result) = Cardinality(matches)
  /\ \A k \in matches :
       result[Cardinality({m \in matches : m <= k})] = books[k]

\* C9: with a submitted query that is not empty, the result of the strict
\* filter is the books whose selected field, trimmed, lower-cased and with
\* whitespace runs collapsed, contains the query normalized the same way,
\* each once and in the order of the books; no event changes the books.
C9_StrictFilterExact ==
  /\ [](app.submittedQuery # <<>> =>
          IsSubsequenceAt(AppFiltered, app.books,
            { k \in 1..Len(app.books) :
                Contains(Collapsed(BookField(app.books[k], app.selectedField)),
                         Collapsed(app.submittedQuery)) }))
  /\ [][app'.books = app.books]_vars

\* C9 witness: a query that normalization changes has been submitted, and
\* of three books the first and the third are the result.
C9_Witness ==
  /\ app.submittedQuery # <<>>
  /\ Collapsed(app.submittedQuery) # app.submittedQuery
  /\ Len(app.books) = 3
  /\ AppFiltered = <<app.books[1], app.books[3]>>

\* C10: with a submitted query that is not empty, the result of the lenient
\* filter is the books, in their order, whose selected field contains the
\* query in the space-collapsed forms or in the space-stripped forms; the
\* query foobar finds the title foo bar, whose collapsed form does not
\* contain it.
C10_LenientFilterEither ==
  multi.submittedQuery # <<>> =>
    /\ IsSubsequenceAt(MultiFiltered, MultiBooks,
         { k \in 1..Len(MultiBooks) :
             LET t == BookField(MultiBooks[k], multi.selectedField) IN
               \/ Contains(Collapsed(t), Collapsed(multi.submittedQuery))
               \/ Contains(Stripped(t), Stripped(multi.submittedQuery)) })
    /\ (multi.submittedQuery = QueryFoobar /\ multi.selectedField = FieldTitle)
         => \A k \in 1..Len(MultiBooks) :
              MultiBooks[k].title = CuratedFields[1].title
                => /\ \E n \in 1..Len(MultiFiltered) :
                        MultiFiltered[n] = MultiBooks[k]
                   /\ ~Contains(Collapsed(MultiBooks[k].title),
                                Collapsed(QueryFoobar))

\* C10 witness: foobar has been submitted and the result holds a book whose
\* title is foo bar, and leaves out a book.
C10_Witness ==
  /\ multi.submittedQuery = QueryFoobar
  /\ multi.selectedField = FieldTitle
  /\ \E n \in 1..Len(MultiFiltered) :
       MultiFiltered[n].title = CuratedFields[1].title
  /\ 0 < Len(MultiFiltered)
  /\ Len(MultiFiltered) < Len(MultiBooks)


(***************************************************************************)
(* Claim about pagination, checked under SpecPagination.                   *)
(***************************************************************************)
PageRendered == app.pc = "rendered"

\* C11: for n results and a stored page p (below 1 and above totalPages
\* included), totalPages is the least t >= 1 with 10 t >= n, the effective
\* page is p clamped into 1..totalPages, and the displayed page is the
\* results at the positions (effectivePage - 1) * 10 + 1 .. effectivePage *
\* 10 that exist, in order: at most 10, at least one when n > 0, none and
\* effectivePage = 1 when n = 0; 23 results give 3 pages, page 0 clamps to 1
\* and page 99 to 3.
C11_PaginationClamped ==
  PageRendered =>
    LET n == Len(app.filtered)
        p == app.currentPage
        first == (app.safePage - 1) * 10 + 1
        shown == {j \in first..(first + 9) : j <= n}
    IN /\ app.totalPages >= 1
       /\ app.totalPages * 10 >= n
       /\ \A t \in 1..(app.totalPages - 1) : t * 10 < n
       /\ app.safePage = (IF p < 1 THEN 1
                          ELSE IF p > app.totalPages THEN app.totalPages
                          ELSE p)
       /\ Len(app.pageItems) = Cardinality(shown)
       /\ \A k \in 1..Len(app.pageItems) :
            app.pageItems[k] = app.filtered[first + k - 1]
       /\ Len(app.pageItems) <= 10
       /\ n > 0 => app.pageItems # <<>>
       /\ n = 0 => (app.pageItems = <<>> /\ app.safePage = 1)
       /\ n = 23 => /\ app.totalPages = 3
                    /\ p = 0 => app.safePage = 1
                    /\ p = 99 => app.safePage = 3

\* C11 witness: 23 results rendered at page 99 show the three results of
\* page 3.
C11_Witness ==
  /\ PageRendered
  /\ Len(app.filtered) = 23
  /\ app.currentPage = 99
  /\ app.safePage = 3
  /\ app.pageItems = <<21, 22, 23>>


(***************************************************************************)
(* Claims about the pages, checked under SpecStrictPage, SpecMultiPage and *)
(* SpecPages.                                                              *)
(***************************************************************************)
\* s without the combining marks it starts with.
RECURSIVE DropMarks(_)
DropMarks(s) ==
  IF s # <<>> /\ Head(s) = COMBINING THEN DropMarks(Tail(s)) ELSE s

\* The number of user-perceived characters of s: a surrogate pair is one,
\* and so is a character together with the combining marks that follow it.
RECURSIVE GraphemeCount(_)
GraphemeCount(s) ==
  IF s = <<>> THEN 0
  ELSE IF Len(s) >= 2 /\ s[1] = HighSurrogate /\ s[2] = LowSurrogate
       THEN 1 + GraphemeCount(DropMarks(SubSeq(s, 3, Len(s))))
       ELSE 1 + GraphemeCount(DropMarks(Tail(s)))

\* C12: a search of the strict page submits the trimmed query when it has at
\* least two user-perceived characters, and otherwise sets an error and
\* submits nothing.
C12_AcceptsIffTwoGraphemes ==
  [][(AppLive /\ AppRunSearch) =>
       LET trimmed == Trim(app.query) IN
         IF GraphemeCount(trimmed) >= 2
         THEN app'.submittedQuery = trimmed /\ app'.error = ErrNone
         ELSE app'.submittedQuery = <<>> /\ app'.error # ErrNone]_vars


\* A search of the strict page that fails validation: the trimmed query is
\* empty or has fewer than two code points.
AppValidationFails ==
  AppLive /\ AppRunSearch /\ CodePointCount(Trim(app.query)) < 2

\* A search of the multi-dataset page that fails validation: no library is
\* selected, or the trimmed query is empty.
MultiValidationFails ==
  /\ MultiLive
  /\ MultiRunSearch
  /\ (multi.site = SiteNone \/ Trim(multi.query) = <<>>)

\* The records the page displays.
AppPageShown(a) == PageItems(AppFilteredOf(a), AppSafePageOf(a))

MultiPageShown(m) == PageItems(MultiFilteredOf(m), MultiSafePageOf(m))

\* C13 as stated: a search that fails validation sets the error, starts no
\* search, and leaves the result set and the displayed page as they were
\* before it.
C13_FailureKeepsResults ==
  /\ [][AppValidationFails =>
          /\ app'.error # ErrNone
          /\ app'.pending = app.pending
          /\ AppFilteredOf(app') = AppFilteredOf(app)
          /\ AppPageShown(app') = AppPageShown(app)]_vars
  /\ [][MultiValidationFails =>
          /\ multi'.error # ErrNone
          /\ multi'.pending = multi.pending
          /\ MultiFilteredOf(multi') = MultiFilteredOf(multi)
          /\ MultiPageShown(multi') = MultiPageShown(multi)]_vars

\* C13 amended: a search that fails validation sets the error and starts no
\* search (no fetch starts, and loading, the load error, the books or the
\* cache, the library, the field and the typed query stay as they are), and
\* it clears what was shown: the submitted query becomes empty, the result
\* set empty and the page 1.
C13_FailureClearsResults ==
  /\ [][AppValidationFails =>
          /\ app'.error # ErrNone
          /\ app' = [app EXCEPT !.error = app'.error,
                                !.submittedQuery = <<>>, !.currentPage = 1]
          /\ AppFilteredOf(app') = <<>>
          /\ AppPageShown(app') = <<>>
          /\ AppSafePageOf(app') = 1]_vars
  /\ [][MultiValidationFails =>
          /\ multi'.error # ErrNone
          /\ multi' = [multi EXCEPT !.error = multi'.error,
                                    !.submittedQuery = <<>>,
                                    !.currentPage = 1]
          /\ MultiFilteredOf(multi') = <<>>
          /\ MultiPageShown(multi') = <<>>
          /\ MultiSafePageOf(multi') = 1]_vars

\* C13 witness: the multi-dataset page, with the long books file of its
\* library cached, shows the error of an empty query and no result.
C13_Witness ==
  /\ MultiLive
  /\ multi.error = ErrEmptyQuery
  /\ multi.submittedQuery = <<>>
  /\ Len(SiteBooks(multi.site, multi.cache)) > PAGE_SIZE
  /\ MultiFilteredOf(multi) = <<>>


\* The fetches of the books file of library s that are in flight in page
\* state m.
PendingFor(m, s) == {k \in 1..Len(m.pending) : m.pending[k].site = s}

\* C14: over any sequence of library selections and searches, no fetch of a
\* library starts once its load has succeeded, and at no time are two
\* fetches of one library in flight: a fetch of a library starts only while
\* its cache entry is absent and no fetch of it is in flight.
C14_LoadAtMostOnce ==
  /\ [](\A s \in Sites : Cardinality(PendingFor(multi, s)) <= 1)
  /\ [][\A s \in Sites :
          Cardinality(PendingFor(multi', s)) > Cardinality(PendingFor(multi, s))
            => /\ ~multi.cache[s].loaded
               /\ PendingFor(multi, s) = {}]_vars
  /\ [][\A s \in Sites :
          multi.cache[s].loaded => PendingFor(multi', s) = {}]_vars

\* C14 witness: both libraries are cached, with different books, and a
\* search of library 3 is shown; no fetch is in flight.
C14_Witness ==
  /\ \A s \in Sites : multi.cache[s].loaded
  /\ multi.site # SiteNone
  /\ multi.submittedQuery # <<>>
  /\ multi.cache[multi.site].books # multi.cache["4"].books
  /\ multi.pending = <<>>
  /\ ~multi.loading


\* The pieces of a message.
Pieces(msg) == {msg[k] : k \in 1..Len(msg)}

\* A step that ends a load of the multi-dataset page in failure.
MultiLoadFails == MultiFetchNotOk \/ MultiFetchReject

\* A step that ends the load of the strict page in failure.
AppLoadFails == AppFetchNotOk \/ AppFetchReject

C16_CacheOnlyGrows ==
  /\ \A s \in Sites : ~multi.cache[s].loaded
  /\ [][\A s \in Sites :
          (~multi.cache[s].loaded /\ multi'.cache[s].loaded) =>
            /\ MultiFetchOk
            /\ PendingFor(multi, s) # {}
            /\ PendingFor(multi', s) = {}
            /\ \E text \in DatasetTexts :
                 multi'.cache[s].books = BooksOfText(text)]_vars
  /\ [][\A s \in Sites :
          multi.cache[s].loaded => multi'.cache[s] = multi.cache[s]]_vars
  /\ [][\A s \in Sites :
          multi'.cache[s] # multi.cache[s] =>
            \A t \in Sites \ {s} : multi'.cache[t] = multi.cache[t]]_vars
  /\ [](\A s \in Sites : ~multi.cache[s].loaded => multi.cache[s].books = <<>>)

\* C16 witness: library 3 is cached with the long books file and library 4
\* with the short one; library 4 is selected.
C16_Witness ==
  /\ multi.cache["3"].loaded
  /\ Len(multi.cache["3"].books) > PAGE_SIZE
  /\ multi.cache["4"].loaded
  /\ Len(multi.cache["4"].books) = 2
  /\ multi.site = "4"
  /\ ~multi.loading


(***************************************************************************)
(* Claim about malformed input of parseCSV, checked under SpecCsv.         *)
(***************************************************************************)
\* Read inside quotes, s has no closing quote: every double quote of s is
\* followed by, or follows as the second of a pair, another double quote.
RECURSIVE StaysQuoted(_)
StaysQuoted(s) ==
  IF s = <<>> THEN TRUE
  ELSE IF Head(s) = DQ
       THEN Len(s) >= 2 /\ s[2] = DQ /\ StaysQuoted(SubSeq(s, 3, Len(s)))
       ELSE StaysQuoted(Tail(s))

\* s with every pair of double quotes made one double quote.
RECURSIVE CollapseQuotePairs(_)
CollapseQuotePairs(s) ==
  IF s = <<>> THEN <<>>
  ELSE IF Len(s) >= 2 /\ s[1] = DQ /\ s[2] = DQ
       THEN <<DQ>> \o CollapseQuotePairs(SubSeq(s, 3, Len(s)))
       ELSE <<Head(s)>> \o CollapseQuotePairs(Tail(s))

\* The text that is still to be scanned.
CsvRest == SubSeq(csv.text, csv.i, Len(csv.text))

\* C17: the scan of every text ends: each step moves the position forward,
\* some step is possible until the rows are returned, and the position never
\* passes the end by more than one.  When the scan is inside quotes and the
\* rest of the text has no closing quote, the rest, commas and line
\* terminators included and quote pairs collapsed, goes to the end of the
\* field in progress, which is the last field of the last row; that row is
\* the last row of the result unless all its fields are blank, and the rows
\* before it are the rows so far.
C17_UnterminatedQuoteKept ==
  /\ [][csv.pc = "scan" => (csv'.i > csv.i \/ csv'.pc = "done")]_vars
  /\ [](CsvDone \/ ENABLED CsvNext)
  /\ [](csv.i <= Len(csv.text) + 2)
  /\ [](CsvDone => csv.rows = parseCSV(csv.text))
  /\ []((csv.pc = "scan" /\ csv.inQuotes /\ StaysQuoted(CsvRest)) =>
          LET last == Append(csv.row,
                             csv.field \o CollapseQuotePairs(CsvRest))
          IN parseCSV(csv.text) = (IF HasVisibleChar(last)
                                   THEN Append(csv.rows, last)
                                   ELSE csv.rows))

\* C17 witness: a text that opens a quote and never closes it has been
\* parsed to one row of one field that holds the comma, the line feed and
\* the one double quote of the pair that follow the opening quote.
C17_Witness ==
  /\ CsvDone
  /\ csv.inQuotes
  /\ csv.text = <<DQ, COMMA, LF, DQ, DQ>>
  /\ csv.rows = << << <<COMMA, LF, DQ>> >> >>


\* C18: in every state of either page, an empty submitted query goes with an
\* empty result set, whatever books are loaded; a submitted query that is
\* not empty is trimmed and, on the strict page, has at least two code
\* points, and on the multi-dataset page goes with a selected library whose
\* books are in the cache; an error message is shown only with an empty
\* submitted query.
C18_SubmittedQueryValid ==
  /\ AppLive =>
       /\ app.submittedQuery = <<>> => AppFilteredOf(app) = <<>>
       /\ app.submittedQuery # <<>> =>
            /\ Trim(app.submittedQuery) = app.submittedQuery
            /\ CodePointCount(app.submittedQuery) >= 2
            /\ Len(app.submittedQuery) >= 2
       /\ app.error # ErrNone => app.submittedQuery = <<>>
  /\ MultiLive =>
       /\ multi.submittedQuery = <<>> => MultiFilteredOf(multi) = <<>>
       /\ multi.submittedQuery # <<>> =>
            /\ Trim(multi.submittedQuery) = multi.submittedQuery
            /\ multi.site # SiteNone
            /\ multi.cache[multi.site].loaded
       /\ multi.error # ErrNone => multi.submittedQuery = <<>>

\* C18 witness: on the multi-dataset page the typed query " a b " has been
\* submitted as "a b" for a cached library, and has results; no error is
\* shown.
C18_Witness ==
  /\ MultiLive
  /\ multi.query = QueryABSpaced
  /\ multi.submittedQuery = <<"a", SP, "b">>
  /\ multi.cache[multi.site].loaded
  /\ MultiFilteredOf(multi) # <<>>
  /\ multi.error = ErrNone


(***************************************************************************)
(* Claim about the end of a load, checked under SpecPagesFair.             *)
(***************************************************************************)
\* C19: when every fetch is answered or rejects in the end, loading true is
\* followed by loading false, on either page and whether the load succeeds
\* or fails.  While loading is true the only steps are the start of the
\* first load and the end of the fetch in flight: no library, field or query
\* is chosen, no search is run and no page is changed.  loading is true
\* exactly from the first render, or the start of a fetch, to the end of the
\* fetch, and at most one fetch is in flight.
C19_LoadingEnds ==
  /\ (AppLive /\ app.loading) ~> (AppLive /\ ~app.loading)
  /\ (MultiLive /\ multi.loading) ~> (MultiLive /\ ~multi.loading)
  /\ [][(AppLive /\ app.loading) => (AppMount \/ AppFetchSettles)]_vars
  /\ [][(MultiLive /\ multi.loading) => MultiFetchSettles]_vars
  /\ [](AppLive =>
          /\ Len(app.pending) <= 1
          /\ app.loading <=> (~app.mounted \/ app.pending # <<>>))
  /\ [](MultiLive =>
          /\ Len(multi.pending) <= 1
          /\ multi.loading <=> multi.pending # <<>>)

\* C19 witness: a search of library 4, which is not cached, is awaiting its
\* fetch while library 3 is cached: loading is true.
C19_Witness ==
  /\ MultiLive
  /\ multi.loading
  /\ Len(multi.pending) = 1
  /\ multi.pending[1].kind = "search"
  /\ multi.pending[1].site = "4"
  /\ multi.cache["3"].loaded


(***************************************************************************)
(* Claim about the two searches on the same books, checked under           *)
(* SpecMultiPage.                                                          *)
(***************************************************************************)
\* The positions of the books whose field contains the query, spaces
\* collapsed and spaces stripped.
CollapsedMatches(books, selectedField, q) ==
  { k \in 1..Len(books) :
      Contains(Collapsed(BookField(books[k], selectedField)), Collapsed(q)) }

StrippedMatches(books, selectedField, q) ==
  { k \in 1..Len(books) :
      Contains(Stripped(BookField(books[k], selectedField)), Stripped(q)) }

\* C20: for the books, the field and the non-empty submitted query of the
\* page, the result of the strict search is the books whose field contains
\* the query with spaces collapsed, and it is the result of the lenient
\* search without the books that do not, in the same order; a book whose
\* field contains the query with spaces collapsed contains it with spaces
\* stripped; and the result of the lenient search is the books whose
\* space-stripped field contains the space-stripped query, in the order of
\* the books.
C20_LenientExtendsStrict ==
  (multi # Idle /\ normalizeBase(multi.submittedQuery) # <<>>) =>
    LET books == MultiBooks
        f == multi.selectedField
        q == multi.submittedQuery
        lenient == MultiFiltered
        strict == StrictFiltered(books, f, q)
    IN /\ IsSubsequenceAt(strict, books, CollapsedMatches(books, f, q))
       /\ IsSubsequenceAt(strict, lenient, CollapsedMatches(lenient, f, q))
       /\ CollapsedMatches(books, f, q) \subseteq StrippedMatches(books, f, q)
       /\ IsSubsequenceAt(lenient, books, StrippedMatches(books, f, q))

\* C20 witness: a query is submitted for which the strict search finds a book
\* and the lenient search finds more books than the strict one.
C20_Witness ==
  /\ multi # Idle
  /\ normalizeBase(multi.submittedQuery) # <<>>
  /\ StrictFiltered(MultiBooks, multi.selectedField,
                    multi.submittedQuery) # <<>>
  /\ Len(MultiFiltered) >
       Len(StrictFiltered(MultiBooks, multi.selectedField,
                          multi.submittedQuery))


(***************************************************************************)
(* Claim about the stored page, checked under SpecPages.                   *)
(***************************************************************************)
\* A click on the previous or the next button.
AppPagerClick == AppPrevPage \/ AppNextPage

MultiPagerClick == MultiPrevPage \/ MultiNextPage

\* C21: on either page the stored currentPage is at least 1 and at most
\* totalPages in every state, so the page shown is the stored page.  A step
\* that changes the result set ends with currentPage 1, and so does every
\* search (accepted or failing validation), every choice of the field or of
\* the library and every failed load.  A click on previous or next moves the
\* stored page by exactly one, within 1..totalPages, and leaves the result
\* set as it is.
C21_StoredPageInRange ==
  /\ [](AppLive =>
          /\ 1 <= app.currentPage
          /\ app.currentPage <= AppTotalPagesOf(app)
          /\ AppSafePageOf(app) = app.currentPage)
  /\ [](MultiLive =>
          /\ 1 <= multi.currentPage
          /\ multi.currentPage <= MultiTotalPagesOf(multi)
          /\ MultiSafePageOf(multi) = multi.currentPage)
  /\ [][(AppLive /\ AppFilteredOf(app') # AppFilteredOf(app)) =>
          app'.currentPage = 1]_vars
  /\ [][(MultiLive /\ MultiFilteredOf(multi') # MultiFilteredOf(multi)) =>
          multi'.currentPage = 1]_vars
  /\ [][(AppPageRunSearch \/ AppPageSelectField \/ AppLoadFails) =>
          app'.currentPage = 1]_vars
  /\ [][(MultiRunSearch \/ MultiPageSelectField \/ MultiSelectSite
           \/ MultiLoadFails) =>
          multi'.currentPage = 1]_vars
  /\ [][AppPagerClick =>
          /\ app'.currentPage \in 1..AppTotalPagesOf(app')
          /\ app'.currentPage \in {app.currentPage - 1, app.currentPage + 1}
          /\ AppFilteredOf(app') = AppFilteredOf(app)]_vars
  /\ [][MultiPagerClick =>
          /\ multi'.currentPage \in 1..MultiTotalPagesOf(multi')
          /\ multi'.currentPage \in
               {multi.currentPage - 1, multi.currentPage + 1}
          /\ MultiFilteredOf(multi') = MultiFilteredOf(multi)]_vars

\* C21 witness: the multi-dataset page shows the second and last page of a
\* result of more than ten books.
C21_Witness ==
  /\ MultiLive
  /\ ~multi.loading
  /\ Len(MultiFilteredOf(multi)) > PAGE_SIZE
  /\ multi.currentPage = 2
  /\ multi.currentPage = MultiTotalPagesOf(multi)


=============================================================================
